---- MODULE Spec2Model ----
(***************************************************************************)
(* Model of the MCP23S17 SPI I/O-expander driver (Drivers/MCP23S17.py,     *)
(* Drivers/registers.py) on top of the GPIO/SPI primitives of              *)
(* Tools/rpi_sim.py.                                                       *)
(*                                                                         *)
(* The driver object is the state; every method call is one action.  An    *)
(* action records in `events` the hardware accesses the call made, in      *)
(* order, in `result` how the call ended and in `lastCall` which call it   *)
(* was, so that the ordering inside one call can be stated as a property.  *)
(***************************************************************************)
EXTENDS Integers, Sequences, FiniteSets, TLC

VARIABLES
    pc,                 \* position inside MCP23S17.__init__, "ready" once constructed
    spi_bus,            \* mcp_settings['SPI_BUS']
    available_devices,  \* self._available_devices (a list)
    opened_device,      \* self._opened_device
    mode,               \* self._mode
    gpios,              \* self._gpios: level last written to each control line
    present,            \* the bus: hardware addresses whose chip answers with HAEN set
    active,             \* the writeContext / readContext objects whose with-body is running
    lastCall,           \* the call the last step made, with its arguments
    result,             \* how that call ended: "ok" or the exception raised
    events              \* the hardware accesses of that call, in order

vars == <<pc, spi_bus, available_devices, opened_device, mode, gpios, present,
          active, lastCall, result, events>>

---------------------------------------------------------------------------
(* Bounds of the model *)

\* SPI bus numbers passed as SPI_BUS range over 0 .. MaxBusArg
MaxBusArg == 3
\* read-path transfers ask for 0 .. MaxNBytes bytes
MaxNBytes == 2
\* the encoder is applied to the addresses -1 .. MaxEncoderAddr
MaxEncoderAddr == 12
\* a Register is called with at most MaxBits bit names
MaxBits == 2
\* numeric registers passed to open_device range over -1 .. MaxRegisterArg
MaxRegisterArg == 28

---------------------------------------------------------------------------
(* Program constants *)

READ == 1
WRITE == 0
None == -1              \* Python None for self._mode
NoDevice == -1          \* self._opened_device when nothing is open
OPCODE == 64            \* 0b01000000
DEVICE_ADDRESS_MASK == 7
MaxRegisterAddress == 26    \* 0x1A
ResetHoldMs == 100
Absent == -1            \* a control line that is not in self._gpios

Pins == {"reset", "inta", "intb", "ce"}

\* list(range(0, 8)), the value __init__ gives _available_devices
InitialDevicesEmpty == <<>>
InitialDevices == <<0, 1, 2, 3, 4, 5, 6, 7>>

---------------------------------------------------------------------------
(* Bit arithmetic on naturals, as Python's &, | and << compute it *)

RECURSIVE BitAnd(_, _)
BitAnd(a, b) ==
    IF a = 0 \/ b = 0 THEN 0
    ELSE (IF a % 2 = 1 /\ b % 2 = 1 THEN 1 ELSE 0) + 2 * BitAnd(a \div 2, b \div 2)

RECURSIVE BitOr(_, _)
BitOr(a, b) ==
    IF a = 0 THEN b
    ELSE IF b = 0 THEN a
    ELSE (IF a % 2 = 1 \/ b % 2 = 1 THEN 1 ELSE 0) + 2 * BitOr(a \div 2, b \div 2)

ShiftLeft(a, n) == a * (2 ^ n)

---------------------------------------------------------------------------
(* registers.py: Register, and the MCP23S17.REGISTERS table *)

\* Register.__init__ storing the primary address as the alternative one too
RegisterAltFromAddress(address, bit_map, alt_address) ==
    [address |-> address, bit_map |-> bit_map, alt_address |-> address,
     use_alt_address |-> FALSE]

Register(address, bit_map, alt_address) ==
    [address |-> address, bit_map |-> bit_map, alt_address |-> alt_address,
     use_alt_address |-> FALSE]

IOBits == <<"IO7", "IO6", "IO5", "IO4", "IO3", "IO2", "IO1", "IO0">>
IPBits == <<"IP7", "IP6", "IP5", "IP4", "IP3", "IP2", "IP1", "IP0">>
GPINTBits == <<"GPINT7", "GPINT6", "GPINT5", "GPINT4", "GPINT3", "GPINT2", "GPINT1", "GPINT0">>
DEFBits == <<"DEF7", "DEF6", "DEF5", "DEF4", "DEF3", "DEF2", "DEF1", "DEF0">>
IOCBits == <<"IOC7", "IOC6", "IOC5", "IOC4", "IOC3", "IOC2", "IOC1", "IOC0">>
IOCONBits == <<"BANK", "MIRROR", "SEQOP", "DISSLW", "HAEN", "ODR", "INTPOL", "UNUSED">>
PUBits == <<"PU7", "PU6", "PU5", "PU4", "PU3", "PU2", "PU1", "PU0">>
INTBits == <<"INT7", "INT6", "INT5", "INT4", "INT3", "INT2", "INT1", "INT0">>
ICPBits == <<"ICP7", "ICP6", "ICP5", "ICP4", "ICP3", "ICP2", "ICP1", "ICP0">>
GPBits == <<"GP7", "GP6", "GP5", "GP4", "GP3", "GP2", "GP1", "GP0">>
OLBits == <<"OL7", "OL6", "OL5", "OL4", "OL3", "OL2", "OL1", "OL0">>

REGISTERS ==
    [IODIRA   |-> Register(0, IOBits, 0),
     IODIRB   |-> Register(1, IOBits, 16),
     IPOLA    |-> Register(2, IPBits, 1),
     IPOLB    |-> Register(3, IPBits, 17),
     GPINTENA |-> Register(4, GPINTBits, 2),
     GPINTENB |-> Register(5, GPINTBits, 18),
     DEFVALA  |-> Register(6, DEFBits, 3),
     DEFVALB  |-> Register(7, DEFBits, 19),
     INTCONA  |-> Register(8, IOCBits, 4),
     INTCONB  |-> Register(9, IOCBits, 20),
     IOCONA   |-> Register(10, IOCONBits, 5),
     IOCONB   |-> Register(11, IOCONBits, 21),
     GPPUA    |-> Register(12, PUBits, 6),
     GPPUB    |-> Register(13, PUBits, 22),
     INTFA    |-> Register(14, INTBits, 7),
     INTFB    |-> Register(15, INTBits, 23),
     INTCAPA  |-> Register(16, ICPBits, 8),
     INTCAPB  |-> Register(17, ICPBits, 24),
     GPIOA    |-> Register(18, GPBits, 9),
     GPIOB    |-> Register(19, GPBits, 25),
     OLATA    |-> Register(20, OLBits, 10),
     OLATB    |-> Register(21, OLBits, 26)]

RegisterNames == DOMAIN REGISTERS

\* `bit in bits` for the tuple of names a Register is called with
InTuple(bit, bits) == \E j \in 1..Len(bits) : bits[j] = bit

\* Register.__call__ counting positions from the first bit_map entry upwards
RECURSIVE RegisterCallLsbFirst(_, _, _, _)
RegisterCallLsbFirst(bit_map, bits, i, value) ==
    IF i > Len(bit_map) THEN value
    ELSE RegisterCallLsbFirst(bit_map, bits, i + 1,
             IF InTuple(bit_map[i], bits) THEN BitOr(value, ShiftLeft(1, i - 1)) ELSE value)

\* Register.__call__(*bits): walk bit_map from the MSB, OR in the requested bits
RECURSIVE RegisterCallFrom(_, _, _, _)
RegisterCallFrom(bit_map, bits, i, value) ==
    IF i > Len(bit_map) THEN value
    ELSE LET pos == Len(bit_map) - (i - 1)
         IN RegisterCallFrom(bit_map, bits, i + 1,
                IF InTuple(bit_map[i], bits) THEN BitOr(value, ShiftLeft(1, pos - 1)) ELSE value)

RegisterCall(reg, bits) == RegisterCallFrom(reg.bit_map, bits, 1, 0)

---------------------------------------------------------------------------
(* MCP23S17.DEVICE_ADDRESS / CONTROLBYTE *)

\* DEVICE_ADDRESS without the mask
DeviceAddressUnmasked(addr) == ShiftLeft(addr, 1)

DEVICE_ADDRESS(addr) == ShiftLeft(BitAnd(addr, DEVICE_ADDRESS_MASK), 1)

\* CONTROLBYTE with the read/write flag inverted
ControlByteFlagInverted(addr, rw) ==
    BitOr(BitOr(OPCODE, DEVICE_ADDRESS(addr)), IF rw = READ THEN 0 ELSE 1)

CONTROLBYTE(addr, rw) ==
    BitOr(BitOr(OPCODE, DEVICE_ADDRESS(addr)), IF rw = READ THEN 1 ELSE 0)

---------------------------------------------------------------------------
(* Hardware accesses, as recorded in `events` *)

Ev(kind, val, data) == [kind |-> kind, val |-> val, data |-> data]
CeWrite(v) == Ev("ce_write", v, <<>>)
CeRead(v) == Ev("ce_read", v, <<>>)
ResetWrite(v) == Ev("reset_write", v, <<>>)
ResetRead(v) == Ev("reset_read", v, <<>>)
Sleep(ms) == Ev("sleep", ms, <<>>)
SpiTransfer(data) == Ev("spi_transfer", Len(data), data)

\* GPIO.read(): rpi_sim returns the level last written ("none"); a line of the
\* real board may be stuck and read back the other level
LineFaults == {"none", "stuck_high", "stuck_low"}
NoFaults == {"none"}

GpioRead(written, fault) ==
    CASE fault = "none" -> written
      [] fault = "stuck_high" -> 1
      [] fault = "stuck_low" -> 0

\* the byte a chip shifts out when its IOCON is read at hardware address addr
ReadBack(bus, addr, haen_bit) == IF addr \in bus THEN haen_bit ELSE 0

Range(list) == {list[i] : i \in 1..Len(list)}

RECURSIVE Zeros(_)
Zeros(n) == IF n = 0 THEN <<>> ELSE <<0>> \o Zeros(n - 1)

---------------------------------------------------------------------------
(* The session part of the driver: s = [opened, mode, ce]; every operation *)
(* returns the new session, the hardware accesses it made and its outcome  *)

Outcome(opened, md, ce, ev, res) ==
    [opened |-> opened, mode |-> md, ce |-> ce, ev |-> ev, res |-> res]

\* close_device without line 416
CloseDeviceKeepsOpened(s, f) ==
    IF s.opened # NoDevice
    THEN LET rd == GpioRead(1, f)
         IN IF rd = 0
            THEN Outcome(s.opened, s.mode, 1, <<CeWrite(1), CeRead(rd)>>,
                         "RuntimeError: Failed to set CE pin high.")
            ELSE Outcome(s.opened, s.mode, 1, <<CeWrite(1), CeRead(rd)>>, "ok")
    ELSE Outcome(s.opened, s.mode, s.ce, <<>>, "ok")

\* close_device without the guard of line 411
CloseDeviceUnguarded(s, f) ==
    LET rd == GpioRead(1, f)
    IN IF rd = 0
       THEN Outcome(s.opened, s.mode, 1, <<CeWrite(1), CeRead(rd)>>,
                    "RuntimeError: Failed to set CE pin high.")
       ELSE Outcome(NoDevice, s.mode, 1, <<CeWrite(1), CeRead(rd)>>, "ok")

\* close_device forgetting the session although CE did not read high
CloseDeviceClearsOnFailure(s, f) ==
    IF s.opened # NoDevice
    THEN LET rd == GpioRead(1, f)
         IN IF rd = 0
            THEN Outcome(NoDevice, s.mode, 1, <<CeWrite(1), CeRead(rd)>>,
                         "RuntimeError: Failed to set CE pin high.")
            ELSE Outcome(NoDevice, s.mode, 1, <<CeWrite(1), CeRead(rd)>>, "ok")
    ELSE Outcome(s.opened, s.mode, s.ce, <<>>, "ok")

\* MCP23S17.close_device
CloseDeviceOp(s, f) ==
    IF s.opened # NoDevice
    THEN LET rd == GpioRead(1, f)
         IN IF rd = 0
            THEN Outcome(s.opened, s.mode, 1, <<CeWrite(1), CeRead(rd)>>,
                         "RuntimeError: Failed to set CE pin high.")
            ELSE Outcome(NoDevice, s.mode, 1, <<CeWrite(1), CeRead(rd)>>, "ok")
    ELSE Outcome(s.opened, s.mode, s.ce, <<>>, "ok")

\* __exit__ that returns without closing
ContextExitNoClose(s, f) == Outcome(s.opened, s.mode, s.ce, <<>>, "ok")

\* writeContext.__exit__ / readContext.__exit__
ContextExitOp(s, f) == CloseDeviceOp(s, f)

\* open_device's address check without the membership test
ValidateDeviceRangeOnly(avail, device_addr) ==
    IF 0 <= device_addr /\ device_addr <= 7
    THEN "ok"
    ELSE "ValueError: Device address must be between 0 and 7."

\* open_device without any address check
ValidateDeviceAcceptsAll(avail, device_addr) == "ok"

\* open_device, the device address check
ValidateDevice(avail, device_addr) ==
    IF 0 <= device_addr /\ device_addr <= 7
    THEN IF device_addr \notin Range(avail)
         THEN "ValueError: Device address not detected."
         ELSE "ok"
    ELSE "ValueError: Device address must be between 0 and 7."

\* a register argument: a name (str), a number (int) or anything else
RegName(n) == [kind |-> "str", name |-> n, val |-> 0]
RegInt(v) == [kind |-> "int", name |-> "", val |-> v]
RegOther == [kind |-> "other", name |-> "", val |-> 0]

\* the register resolution with the upper end of the numeric range excluded
ResolveRegisterStrictUpper(register, bank) ==
    IF register.kind = "str"
    THEN IF register.name \in RegisterNames
         THEN [res |-> "ok",
               reg_addr |-> IF bank = 0 THEN REGISTERS[register.name].address
                            ELSE REGISTERS[register.name].alt_address]
         ELSE [res |-> "KeyError", reg_addr |-> 0]
    ELSE IF register.kind = "int"
    THEN IF 0 <= register.val /\ register.val < MaxRegisterAddress
         THEN [res |-> "ok", reg_addr |-> register.val]
         ELSE [res |-> "ValueError: Register address must be between 0x00 and 0x1A.",
               reg_addr |-> register.val]
    ELSE [res |-> "ValueError: Register must be a string or an integer.", reg_addr |-> 0]

\* the register resolution always taking the BANK0 address of a name
ResolveRegisterIgnoresBank(register, bank) ==
    IF register.kind = "str"
    THEN IF register.name \in RegisterNames
         THEN [res |-> "ok", reg_addr |-> REGISTERS[register.name].address]
         ELSE [res |-> "KeyError", reg_addr |-> 0]
    ELSE IF register.kind = "int"
    THEN IF 0 <= register.val /\ register.val <= MaxRegisterAddress
         THEN [res |-> "ok", reg_addr |-> register.val]
         ELSE [res |-> "ValueError: Register address must be between 0x00 and 0x1A.",
               reg_addr |-> register.val]
    ELSE [res |-> "ValueError: Register must be a string or an integer.", reg_addr |-> 0]

\* open_device, the register resolution
ResolveRegister(register, bank) ==
    IF register.kind = "str"
    THEN IF register.name \in RegisterNames
         THEN [res |-> "ok",
               reg_addr |-> IF bank = 0 THEN REGISTERS[register.name].address
                            ELSE REGISTERS[register.name].alt_address]
         ELSE [res |-> "KeyError", reg_addr |-> 0]
    ELSE IF register.kind = "int"
    THEN IF 0 <= register.val /\ register.val <= MaxRegisterAddress
         THEN [res |-> "ok", reg_addr |-> register.val]
         ELSE [res |-> "ValueError: Register address must be between 0x00 and 0x1A.",
               reg_addr |-> register.val]
    ELSE [res |-> "ValueError: Register must be a string or an integer.", reg_addr |-> 0]

\* open_device without the close_device() of line 391
OpenDeviceNoAutoClose(avail, s, device_addr, register, m, bank, f) ==
    LET v == ValidateDevice(avail, device_addr)
        r == ResolveRegister(register, bank)
        rd == GpioRead(0, f)
    IN IF v # "ok" THEN Outcome(s.opened, s.mode, s.ce, <<>>, v)
       ELSE IF r.res # "ok" THEN Outcome(s.opened, s.mode, s.ce, <<>>, r.res)
       ELSE IF rd # 0
       THEN Outcome(s.opened, s.mode, 0, <<CeWrite(0), CeRead(rd)>>,
                    "RuntimeError: Failed to set CE pin low.")
       ELSE Outcome(device_addr, m, 0,
                    <<CeWrite(0), CeRead(rd),
                      SpiTransfer(<<CONTROLBYTE(device_addr, m), r.reg_addr>>)>>,
                    "ok")

\* open_device calling close_device() before it checks its arguments
OpenDeviceCloseFirst(avail, s, device_addr, register, m, bank, f) ==
    LET v == ValidateDevice(avail, device_addr)
        r == ResolveRegister(register, bank)
        c == CloseDeviceOp(s, f)
        rd == GpioRead(0, f)
    IN IF c.res # "ok" THEN c
       ELSE IF v # "ok" THEN Outcome(c.opened, c.mode, c.ce, c.ev, v)
       ELSE IF r.res # "ok" THEN Outcome(c.opened, c.mode, c.ce, c.ev, r.res)
       ELSE IF rd # 0
       THEN Outcome(c.opened, c.mode, 0, c.ev \o <<CeWrite(0), CeRead(rd)>>,
                    "RuntimeError: Failed to set CE pin low.")
       ELSE Outcome(device_addr, m, 0,
                    c.ev \o <<CeWrite(0), CeRead(rd),
                              SpiTransfer(<<CONTROLBYTE(device_addr, m), r.reg_addr>>)>>,
                    "ok")

\* MCP23S17.open_device
OpenDeviceOp(avail, s, device_addr, register, m, bank, f) ==
    LET v == ValidateDevice(avail, device_addr)
        r == ResolveRegister(register, bank)
        c == CloseDeviceOp(s, f)
        rd == GpioRead(0, f)
    IN IF v # "ok" THEN Outcome(s.opened, s.mode, s.ce, <<>>, v)
       ELSE IF r.res # "ok" THEN Outcome(s.opened, s.mode, s.ce, <<>>, r.res)
       ELSE IF c.res # "ok" THEN c
       ELSE IF rd # 0
       THEN Outcome(c.opened, c.mode, 0, c.ev \o <<CeWrite(0), CeRead(rd)>>,
                    "RuntimeError: Failed to set CE pin low.")
       ELSE Outcome(device_addr, m, 0,
                    c.ev \o <<CeWrite(0), CeRead(rd),
                              SpiTransfer(<<CONTROLBYTE(device_addr, m), r.reg_addr>>)>>,
                    "ok")

\* writeContext.transfer without the mode check
WriteTransferUnchecked(s, data) ==
    Outcome(s.opened, s.mode, s.ce, <<SpiTransfer(data)>>, "ok")

\* MCP23S17.writeContext.transfer
WriteTransferOp(s, data) ==
    IF s.mode # WRITE
    THEN Outcome(s.opened, s.mode, s.ce, <<>>,
                 "RuntimeError: Device not opened in WRITE mode.")
    ELSE Outcome(s.opened, s.mode, s.ce, <<SpiTransfer(data)>>, "ok")

\* MCP23S17.readContext.transfer
ReadTransferOp(s, nbytes) ==
    IF s.mode # READ
    THEN Outcome(s.opened, s.mode, s.ce, <<>>,
                 "RuntimeError: Device not opened in READ mode.")
    ELSE Outcome(s.opened, s.mode, s.ce, <<SpiTransfer(Zeros(nbytes))>>, "ok")

\* MCP23S17.write / MCP23S17.read followed by the context's __enter__:
\* the register name is resolved for the bank, then open_device gets the number
ContextEnterOp(avail, s, device_addr, register, m, bank, f) ==
    IF register.kind # "str" \/ register.name \notin RegisterNames
    THEN Outcome(s.opened, s.mode, s.ce, <<>>, "KeyError")
    ELSE OpenDeviceOp(avail, s, device_addr,
                      RegInt(IF bank = 0 THEN REGISTERS[register.name].address
                             ELSE REGISTERS[register.name].alt_address),
                      m, 0, f)

---------------------------------------------------------------------------
(* Reset sequencer and enumeration *)

ResetOutcome(level, ev, res) == [level |-> level, ev |-> ev, res |-> res]

\* reset without the read-back of the low phase
ResetNoLowCheck(level, f) ==
    IF level = Absent
    THEN ResetOutcome(level, <<>>, "RuntimeError: RESET pin not configured in MCP settings.")
    ELSE LET r2 == GpioRead(1, f)
             ev == <<ResetWrite(0), Sleep(ResetHoldMs),
                     ResetWrite(1), Sleep(ResetHoldMs), ResetRead(r2)>>
         IN IF r2 = 0
            THEN ResetOutcome(1, ev, "RuntimeError: Failed to set RESET pin high.")
            ELSE ResetOutcome(1, ev, "ok")

\* MCP23S17.reset; level is self._gpios.get('reset')
ResetOp(level, f) ==
    IF level = Absent
    THEN ResetOutcome(level, <<>>, "RuntimeError: RESET pin not configured in MCP settings.")
    ELSE LET r1 == GpioRead(0, f)
             r2 == GpioRead(1, f)
             low == <<ResetWrite(0), Sleep(ResetHoldMs), ResetRead(r1)>>
             high == <<ResetWrite(1), Sleep(ResetHoldMs), ResetRead(r2)>>
         IN IF r1 # 0
            THEN ResetOutcome(0, low, "RuntimeError: Failed to set RESET pin low.")
            ELSE IF r2 = 0
            THEN ResetOutcome(1, low \o high, "RuntimeError: Failed to set RESET pin high.")
            ELSE ResetOutcome(1, low \o high, "ok")

DetectOutcome(avail, o, ev, res) ==
    [available |-> avail, opened |-> o.opened, mode |-> o.mode, ce |-> o.ce,
     ev |-> ev, res |-> res]

\* detect_devices, the probing loop over range(0, 8) from addr on
RECURSIVE ProbeFrom(_, _, _, _, _, _, _, _)
ProbeFrom(avail, s, addr, detected_devices, ev, haen_bit, bus, f) ==
    IF addr > 7
    THEN DetectOutcome(detected_devices, s, ev, "ok")
    ELSE LET o == OpenDeviceOp(avail, s, addr, RegName("IOCON"), READ, 0, f)
             r_data == ReadBack(bus, addr, haen_bit)
             c == CloseDeviceOp(o, f)
         IN IF o.res # "ok" THEN DetectOutcome(avail, o, ev \o o.ev, o.res)
            ELSE IF c.res # "ok"
            THEN DetectOutcome(avail, c, ev \o o.ev \o <<SpiTransfer(<<0>>)>> \o c.ev, c.res)
            ELSE ProbeFrom(avail, c, addr + 1,
                           IF BitAnd(r_data, haen_bit) # 0
                           THEN Append(detected_devices, addr) ELSE detected_devices,
                           ev \o o.ev \o <<SpiTransfer(<<0>>)>> \o c.ev,
                           haen_bit, bus, f)

\* the guard of detect_devices, inverted
AlreadyDetectedInverted(avail) == Len(avail) = 0

\* detect_devices, the guard `if len(self._available_devices)`
AlreadyDetected(avail) == Len(avail) # 0

\* MCP23S17.detect_devices
DetectDevicesOp(avail, s, bus, f) ==
    IF AlreadyDetected(avail)
    THEN DetectOutcome(avail, s, <<>>, "ok")
    ELSE LET o == OpenDeviceOp(avail, s, 0, RegName("IOCON"), WRITE, 0, f)
         IN IF o.res # "ok" THEN DetectOutcome(avail, o, o.ev, o.res)
            ELSE IF "IOCON" \notin RegisterNames
            THEN DetectOutcome(avail, o, o.ev, "KeyError")
            ELSE LET haen_bit == RegisterCall(REGISTERS["IOCON"], <<"HAEN">>)
                     c == CloseDeviceOp(o, f)
                     ev == o.ev \o <<SpiTransfer(<<haen_bit>>)>> \o c.ev
                 IN IF c.res # "ok" THEN DetectOutcome(avail, c, ev, c.res)
                    ELSE ProbeFrom(avail, c, 0, <<>>, ev, haen_bit, bus, f)

\* init_spi off the Raspberry Pi: the chip selects the platform lists per bus;
\* -1 stands for an entry without a gpio_number
SpiProperties == [SPI0 |-> <<>>, SPI1 |-> <<13>>, SPI2 |-> <<-1>>]
BusName(n) == CASE n = 0 -> "SPI0" [] n = 1 -> "SPI1" [] n = 2 -> "SPI2" [] OTHER -> "SPI?"

\* DEFAULTS['GPIO_CE'], the tuple (pin number, direction, initial level)
GPIO_CE == [kind |-> "tuple", pin |-> 13, direction |-> "out", initial |-> 1]

\* Python's == between an int and a setting: only an int setting can equal it
EqualsSetting(n, setting) == setting.kind = "int" /\ setting.pin = n

\* MCP23S17.init_spi with the default settings; the message of the conflict
\* error reads mcp_settings['SPI_CE'], a key the settings do not have
InitSpiOp(bus) ==
    IF BusName(bus) \in DOMAIN SpiProperties
    THEN LET cs_list == SpiProperties[BusName(bus)]
         IN IF Len(cs_list) > 0
            THEN IF cs_list[1] = -1 THEN "KeyError"
                 ELSE IF EqualsSetting(cs_list[1], GPIO_CE) THEN "KeyError: SPI_CE"
                 ELSE "ok"
            ELSE "RuntimeError: No CS GPIO found for SPI bus."
    ELSE "RuntimeError: SPI bus not found in device tree."

\* setup_gpios writing False to CE as its initial level
SetupGpiosCeLow == [reset |-> 1, inta |-> 0, intb |-> 0, ce |-> 0]

\* setup_gpios with DEFAULTS: RESET and CE are outputs written True, INTA and
\* INTB inputs whose simulated level is 0
SetupGpiosOp == [reset |-> 1, inta |-> 0, intb |-> 0, ce |-> 1]
NoGpios == [reset |-> Absent, inta |-> Absent, intb |-> Absent, ce |-> Absent]

---------------------------------------------------------------------------
(* Calls and their arguments *)

Call(op, device_addr, register, m, bank, data) ==
    [op |-> op, device_addr |-> device_addr, register |-> register, mode |-> m,
     bank |-> bank, data |-> data]
NoArgs(op) == Call(op, NoDevice, RegOther, None, 0, <<>>)

\* device addresses the application passes: below the range, its two ends, the
\* two addresses of the examined bus, one between them, and above the range
AddrArgs == {-1, 0, 2, 3, 5, 7, 8}
RegisterArgs ==
    {RegName("GPIOA"), RegName("IOCON"),
     RegInt(MaxRegisterAddress), RegInt(MaxRegisterAddress + 1), RegOther}
ModeArgs == {READ, WRITE}
BankArgs == {0, 1}
DataArgs == {<<>>, <<255>>}
\* the buses examined: chips strapped at 2 and 5 only, and at every address
Buses == {{2, 5}, 0..7}
\* register arguments of mcp.write / mcp.read
ContextRegisterArgs == {RegName("GPIOA"), RegName("IOCON")}

Session == [opened |-> opened_device, mode |-> mode, ce |-> gpios.ce]

Finish(call, o) ==
    /\ opened_device' = o.opened
    /\ mode' = o.mode
    /\ gpios' = [gpios EXCEPT !.ce = o.ce]
    /\ lastCall' = call
    /\ result' = o.res
    /\ events' = o.ev

---------------------------------------------------------------------------
(* Construction: MCP23S17.__init__ *)

Init ==
    /\ pc = "init_spi"
    /\ spi_bus \in 0..MaxBusArg
    /\ available_devices = InitialDevices
    /\ opened_device = NoDevice
    /\ mode = None
    /\ gpios = NoGpios
    /\ present \in Buses
    /\ active = {}
    /\ lastCall = NoArgs("__init__")
    /\ result = "ok"
    /\ events = <<>>

InitSpi ==
    /\ pc = "init_spi"
    /\ LET r == InitSpiOp(spi_bus)
       IN /\ pc' = IF r = "ok" THEN "setup_gpios" ELSE "failed"
          /\ result' = r
    /\ lastCall' = NoArgs("init_spi")
    /\ events' = <<>>
    /\ UNCHANGED <<active, spi_bus, available_devices, opened_device, mode, gpios, present>>

SetupGpios ==
    /\ pc = "setup_gpios"
    /\ gpios' = SetupGpiosOp
    /\ pc' = "reset"
    /\ lastCall' = NoArgs("setup_gpios")
    /\ result' = "ok"
    /\ events' = <<ResetWrite(SetupGpiosOp.reset), CeWrite(SetupGpiosOp.ce)>>
    /\ UNCHANGED <<active, spi_bus, available_devices, opened_device, mode, present>>

\* reset(), called by __init__ (pc = "reset") or by the application
Reset(F) ==
    /\ pc \in {"reset", "ready"}
    /\ \E f \in F :
         LET r == ResetOp(gpios.reset, f)
         IN /\ gpios' = [gpios EXCEPT !.reset = r.level]
            /\ result' = r.res
            /\ events' = r.ev
            /\ pc' = IF pc = "ready" THEN "ready"
                     ELSE IF r.res = "ok" THEN "detect_devices" ELSE "failed"
    /\ lastCall' = NoArgs("reset")
    /\ UNCHANGED <<active, spi_bus, available_devices, opened_device, mode, present>>

\* detect_devices(), called by __init__ (pc = "detect_devices") or by the application
DetectDevices(F) ==
    /\ pc \in {"detect_devices", "ready"}
    /\ \E f \in F :
         LET d == DetectDevicesOp(available_devices, Session, present, f)
         IN /\ available_devices' = d.available
            /\ Finish(NoArgs("detect_devices"), d)
            /\ pc' = IF pc = "ready" THEN "ready"
                     ELSE IF d.res = "ok" THEN "ready" ELSE "failed"
    /\ UNCHANGED <<active, spi_bus, present>>

---------------------------------------------------------------------------
(* The application's calls on the constructed driver *)

OpenDevice(F) ==
    /\ pc = "ready"
    /\ \E a \in AddrArgs, r \in RegisterArgs, m \in ModeArgs, b \in BankArgs, f \in F :
         Finish(Call("open_device", a, r, m, b, <<>>),
                OpenDeviceOp(available_devices, Session, a, r, m, b, f))
    /\ UNCHANGED <<active, pc, spi_bus, available_devices, present>>

CloseDevice(F) ==
    /\ pc = "ready"
    /\ \E f \in F : Finish(NoArgs("close_device"), CloseDeviceOp(Session, f))
    /\ UNCHANGED <<active, pc, spi_bus, available_devices, present>>

\* with mcp.write(...) / with mcp.read(...): entering the context
ContextEnter(F) ==
    /\ pc = "ready"
    /\ \E a \in AddrArgs, r \in ContextRegisterArgs, m \in ModeArgs, b \in BankArgs, f \in F :
         Finish(Call("context_enter", a, r, m, b, <<>>),
                ContextEnterOp(available_devices, Session, a, r, m, b, f))
    /\ UNCHANGED <<active, pc, spi_bus, available_devices, present>>

\* leaving the context: __exit__ calls close_device
ContextExit(F) ==
    /\ pc = "ready"
    /\ \E f \in F : Finish(NoArgs("context_exit"), ContextExitOp(Session, f))
    /\ UNCHANGED <<active, pc, spi_bus, available_devices, present>>

WriteTransfer ==
    /\ pc = "ready"
    /\ \E data \in DataArgs :
         Finish(Call("write_transfer", NoDevice, RegOther, None, 0, data),
                WriteTransferOp(Session, data))
    /\ UNCHANGED <<active, pc, spi_bus, available_devices, present>>

ReadTransfer ==
    /\ pc = "ready"
    /\ \E n \in 0..MaxNBytes :
         Finish(Call("read_transfer", NoDevice, RegOther, None, 0, Zeros(n)),
                ReadTransferOp(Session, n))
    /\ UNCHANGED <<active, pc, spi_bus, available_devices, present>>

---------------------------------------------------------------------------
(* Specifications *)

Calls(F) ==
    \/ Reset(F)
    \/ DetectDevices(F)
    \/ OpenDevice(F)
    \/ CloseDevice(F)
    \/ ContextEnter(F)
    \/ ContextExit(F)
    \/ WriteTransfer
    \/ ReadTransfer

\* the driver on lines that read back what was written (rpi_sim.GPIO)
Next == InitSpi \/ SetupGpios \/ Calls(NoFaults)
Spec == Init /\ [][Next]_vars

\* the driver on a board whose control lines may be stuck
NextFault == InitSpi \/ SetupGpios \/ Calls(LineFaults)
SpecFault == Init /\ [][NextFault]_vars

\* The driver as it stands once enumeration has left exactly the chips of the
\* bus in _available_devices: the contract of the calls for any address set
ContractBuses == SUBSET {2, 5} \cup {0..7}

RECURSIVE SortedList(_)
SortedList(S) ==
    IF S = {} THEN <<>>
    ELSE LET m == CHOOSE x \in S : \A y \in S : x <= y
         IN <<m>> \o SortedList(S \ {m})

InitContract ==
    /\ pc = "ready"
    /\ spi_bus = 1
    /\ present \in ContractBuses
    /\ active = {}
    /\ available_devices = SortedList(present)
    /\ opened_device = NoDevice
    /\ mode = None
    /\ gpios = SetupGpiosOp
    /\ lastCall = NoArgs("__init__")
    /\ result = "ok"
    /\ events = <<>>

NextContract == Calls(NoFaults)
SpecContract == InitContract /\ [][NextContract]_vars

---------------------------------------------------------------------------
(* The encoder and the register map on their own: every step applies one of *)
(* the pure functions to arguments of its domain and records the value      *)

Value(v) == Ev("value", v, <<>>)

EncoderAddrs == (-1)..MaxEncoderAddr
\* the registers called with bit names: two of the map, and the 4-bit one of
\* the example at the end of registers.py
BuilderRegisters ==
    [IOCONA  |-> REGISTERS.IOCONA,
     GPIOA   |-> REGISTERS.GPIOA,
     EXAMPLE |-> Register(26, <<"BIT3", "BIT2", "BIT1", "BIT0">>, None)]
BitNameArgs == {"HAEN", "BANK", "UNUSED", "GP0", "BIT0", "BIT2", "NOPE"}
BitTuples == UNION {[1..k -> BitNameArgs] : k \in 0..MaxBits}

InitEncoder ==
    /\ pc = "encoder"
    /\ spi_bus = 1
    /\ available_devices = InitialDevices
    /\ opened_device = NoDevice
    /\ mode = None
    /\ gpios = NoGpios
    /\ present = {}
    /\ active = {}
    /\ lastCall = NoArgs("none")
    /\ result = "ok"
    /\ events = <<>>

Driver == <<pc, spi_bus, available_devices, opened_device, mode, gpios, present, active>>

ControlByte ==
    /\ pc = "encoder"
    /\ \E a \in EncoderAddrs, m \in ModeArgs :
         /\ lastCall' = Call("CONTROLBYTE", a, RegOther, m, 0, <<>>)
         /\ result' = "ok"
         /\ events' = <<Value(CONTROLBYTE(a, m))>>
    /\ UNCHANGED Driver

RegisterAddress ==
    /\ pc = "encoder"
    /\ \E n \in RegisterNames \cup {"IOCON"}, b \in BankArgs :
         LET r == ResolveRegister(RegName(n), b)
         IN /\ lastCall' = Call("register_address", NoDevice, RegName(n), None, b, <<>>)
            /\ result' = r.res
            /\ events' = IF r.res = "ok" THEN <<Value(r.reg_addr)>> ELSE <<>>
    /\ UNCHANGED Driver

BitValue ==
    /\ pc = "encoder"
    /\ \E n \in DOMAIN BuilderRegisters, bits \in BitTuples :
         /\ lastCall' = Call("Register.__call__", NoDevice, RegName(n), None, 0, bits)
         /\ result' = "ok"
         /\ events' = <<Value(RegisterCall(BuilderRegisters[n], bits))>>
    /\ UNCHANGED Driver

NextEncoder == ControlByte \/ RegisterAddress \/ BitValue
SpecEncoder == InitEncoder /\ [][NextEncoder]_vars

\* open_device with numeric registers over the whole range and beyond it
OpenNumeric ==
    /\ pc = "ready"
    /\ \E a \in {2, 5}, v \in (-1)..MaxRegisterArg, m \in ModeArgs, b \in BankArgs :
         Finish(Call("open_device", a, RegInt(v), m, b, <<>>),
                OpenDeviceOp(available_devices, Session, a, RegInt(v), m, b, "none"))
    /\ UNCHANGED <<active, pc, spi_bus, available_devices, present>>

NextNumeric == OpenNumeric \/ CloseDevice(NoFaults)
SpecNumeric == InitContract /\ [][NextNumeric]_vars

---------------------------------------------------------------------------
(* Context managers on one driver object: `with` blocks that nest or overlap *)

\* at most MaxActive with-bodies run at a time
MaxActive == 2

\* the context objects: mcp.write(a, 'GPIOA') and mcp.read(a, 'GPIOA') for
\* the device addresses 2 and 5
Contexts == [device_addr : {2, 5}, mode : ModeArgs]

InitContexts ==
    /\ pc = "ready"
    /\ spi_bus = 1
    /\ present = 0..7
    /\ active = {}
    /\ available_devices = InitialDevices
    /\ opened_device = NoDevice
    /\ mode = None
    /\ gpios = SetupGpiosOp
    /\ lastCall = NoArgs("__init__")
    /\ result = "ok"
    /\ events = <<>>

\* `with c:` reaches its body when __enter__ returns
WithEnter ==
    /\ pc = "ready"
    /\ Cardinality(active) < MaxActive
    /\ \E c \in Contexts \ active :
         LET o == ContextEnterOp(available_devices, Session, c.device_addr,
                                 RegName("GPIOA"), c.mode, 0, "none")
         IN /\ Finish(Call("with_enter", c.device_addr, RegName("GPIOA"), c.mode, 0, <<>>), o)
            /\ active' = IF o.res = "ok" THEN active \cup {c} ELSE active
    /\ UNCHANGED <<pc, spi_bus, available_devices, present>>

\* c.transfer(...) inside the body of `with c:`
WithTransfer ==
    /\ pc = "ready"
    /\ \E c \in active :
         \/ /\ c.mode = WRITE
            /\ \E data \in DataArgs :
                 Finish(Call("with_transfer", c.device_addr, RegName("GPIOA"), c.mode, 0, data),
                        WriteTransferOp(Session, data))
         \/ /\ c.mode = READ
            /\ \E n \in 0..MaxNBytes :
                 Finish(Call("with_transfer", c.device_addr, RegName("GPIOA"), c.mode, 0, Zeros(n)),
                        ReadTransferOp(Session, n))
    /\ UNCHANGED <<active, pc, spi_bus, available_devices, present>>

\* the body of `with c:` ends, normally or by an exception: __exit__ runs
WithExit ==
    /\ pc = "ready"
    /\ \E c \in active :
         /\ Finish(Call("with_exit", c.device_addr, RegName("GPIOA"), c.mode, 0, <<>>),
                   ContextExitOp(Session, "none"))
         /\ active' = active \ {c}
    /\ UNCHANGED <<pc, spi_bus, available_devices, present>>

NextContexts == WithEnter \/ WithTransfer \/ WithExit
SpecContexts == InitContexts /\ [][NextContexts]_vars

---------------------------------------------------------------------------
(* Reading the record of a call *)

OfKind(ev, kind) == SelectSeq(ev, LAMBDA e : e.kind = kind)
Values(ev) == [i \in 1..Len(ev) |-> ev[i].val]
\* the levels written to CE by a call, in order
CeWrites(ev) == Values(OfKind(ev, "ce_write"))
NoBusTransfer(ev) == OfKind(ev, "spi_transfer") = <<>>
NoCeWrite(ev) == OfKind(ev, "ce_write") = <<>>
NoCeLowWrite(ev) == \A i \in 1..Len(ev) : ev[i] # CeWrite(0)
\* the number of high-to-low steps in a sequence of levels
Falls(levels) ==
    Cardinality({i \in 1..(Len(levels) - 1) : levels[i] = 1 /\ levels[i + 1] = 0})
Positions(ev, kind) == {i \in 1..Len(ev) : ev[i].kind = kind}

Constructing == {"init_spi", "setup_gpios", "reset", "detect_devices"}
OpenCalls == {"open_device", "context_enter"}
TransferCalls == {"write_transfer", "read_transfer"}
WrongWrite == "RuntimeError: Device not opened in WRITE mode."
WrongRead == "RuntimeError: Device not opened in READ mode."
UnknownDevice == "ValueError: Device address not detected."

---------------------------------------------------------------------------
(* Claims *)

\* C1 (Spec): once the driver is constructed, on a CE line that reads back
\* what was written, a device is open exactly when CE is low, and CE is high
\* when no device is open.
C1_SessionCeInvariant ==
    pc = "ready" =>
        /\ (opened_device # NoDevice) <=> (gpios.ce = 0)
        /\ (opened_device = NoDevice) => (gpios.ce = 1)

C1_Witness ==
    /\ pc = "ready"
    /\ lastCall.op = "close_device"
    /\ events = <<CeWrite(1), CeRead(1)>>
    /\ opened_device = NoDevice
    /\ gpios.ce = 1

\* C2 (Spec): after initialization on a bus where exactly the addresses of
\* `present` answer with HAEN set, available_devices is exactly `present`, and
\* no open_device for an address outside it succeeds.
C2_EnumerationYieldsPresent ==
    pc = "ready" =>
        /\ Range(available_devices) = present
        /\ (lastCall.op = "open_device" /\ lastCall.device_addr \notin present)
               => result # "ok"

\* C3 (SpecContract): open_device for an address in 0..7 that is not in
\* available_devices fails with the unknown-device error and neither writes CE
\* low nor transfers on the bus; with the empty set this is every address.
C3_UnknownDeviceRejected ==
    (/\ lastCall.op = "open_device"
     /\ lastCall.device_addr \in 0..7
     /\ lastCall.device_addr \notin Range(available_devices))
    => /\ result = UnknownDevice
       /\ NoCeLowWrite(events)
       /\ NoBusTransfer(events)

C3_Witness ==
    /\ lastCall.op = "open_device"
    /\ lastCall.device_addr = 3
    /\ available_devices = <<2, 5>>
    /\ opened_device = 5
    /\ result = UnknownDevice

\* C4 (Spec): a context transfer while no device is open fails with the
\* direction error and transfers nothing on the bus.
C4_ClosedTransferFails ==
    (pc = "ready" /\ lastCall.op \in TransferCalls /\ opened_device = NoDevice)
    => /\ result \in {WrongWrite, WrongRead}
       /\ NoBusTransfer(events)

\* C5 (Spec): while a device is open, a write-path transfer under READ and a
\* read-path transfer under WRITE fail with the direction error, transfer
\* nothing and leave opened_device, mode and the CE line as they were.
C5_WrongDirectionFails ==
    [][ (/\ opened_device # NoDevice
         /\ \/ lastCall'.op = "write_transfer" /\ mode = READ
            \/ lastCall'.op = "read_transfer" /\ mode = WRITE)
        => /\ result' = (IF lastCall'.op = "write_transfer" THEN WrongWrite ELSE WrongRead)
           /\ events' = <<>>
           /\ UNCHANGED <<opened_device, mode, gpios>> ]_vars

C5_Witness ==
    /\ lastCall.op = "write_transfer"
    /\ lastCall.data = <<255>>
    /\ opened_device # NoDevice
    /\ mode = READ
    /\ result = WrongWrite

\* C6 (Spec): a successful open_device makes exactly one high-to-low CE
\* transition; from an open session CE is written high first and low second;
\* the one bus transfer, the 2-byte header, comes after the write of low.
C6_OneCePulsePerOpen ==
    [][ (lastCall'.op \in OpenCalls /\ result' = "ok")
        => /\ Falls(<<gpios.ce>> \o CeWrites(events')) = 1
           /\ (opened_device # NoDevice) => (CeWrites(events') = <<1, 0>>)
           /\ Cardinality(Positions(events', "spi_transfer")) = 1
           /\ \A i \in Positions(events', "spi_transfer") :
                  /\ Len(events'[i].data) = 2
                  /\ \A j \in Positions(events', "ce_write") : j < i
                  /\ \E j \in 1..(i - 1) : events'[j] = CeWrite(0) ]_vars

C6_Witness ==
    /\ lastCall.op = "open_device"
    /\ result = "ok"
    /\ CeWrites(events) = <<1, 0>>
    /\ events[Len(events)].kind = "spi_transfer"

\* C7 as stated (Spec): available_devices is empty until detect_devices has run.
C7_EmptyUntilEnumerated ==
    pc \in Constructing => available_devices = <<>>

\* C7 amended (Spec): from construction until detect_devices replaces it,
\* available_devices holds all eight addresses 0..7.
C7_AllAddressesUntilEnumerated ==
    pc \in Constructing => available_devices = <<0, 1, 2, 3, 4, 5, 6, 7>>

C7_Witness ==
    /\ pc = "detect_devices"
    /\ lastCall.op = "reset"
    /\ result = "ok"
    /\ Range(available_devices) = 0..7

\* C8 (Spec): after a successful reset() available_devices is empty.
C8_ResetClearsSet ==
    (lastCall.op = "reset" /\ result = "ok") => available_devices = <<>>

C10_ResetOrder ==
    lastCall.op = "reset" =>
        /\ Len(events) >= 3
        /\ events[1] = ResetWrite(0)
        /\ events[2].kind = "sleep"
        /\ events[3].kind = "reset_read"
        /\ (events[3].val # 0) =>
              /\ Len(events) = 3
              /\ result = "RuntimeError: Failed to set RESET pin low."
        /\ (events[3].val = 0) =>
              /\ Len(events) = 6
              /\ events[4] = ResetWrite(1)
              /\ events[5].kind = "sleep"
              /\ events[6].kind = "reset_read"
              /\ (events[6].val = 0) => result = "RuntimeError: Failed to set RESET pin high."
              /\ (events[6].val # 0) => result = "ok"

C10_Witness ==
    /\ lastCall.op = "reset"
    /\ result = "RuntimeError: Failed to set RESET pin low."
    /\ OfKind(events, "sleep") = <<Sleep(ResetHoldMs)>>
    /\ ResetWrite(1) \notin Range(events)


RangeError == "ValueError: Register address must be between 0x00 and 0x1A."
Flag(rw) == IF rw = READ THEN 1 ELSE 0

\* the byte with bit (Len - i) set for every entry i of bit_map named in names
RECURSIVE WeightSum(_, _, _)
WeightSum(bit_map, names, i) ==
    IF i > Len(bit_map) THEN 0
    ELSE (IF bit_map[i] \in names THEN 2 ^ (Len(bit_map) - i) ELSE 0)
         + WeightSum(bit_map, names, i + 1)

\* C11 (SpecFault): while __init__ has not passed reset(), and when it was
\* aborted by init_spi or by reset, no call has transferred on the bus or
\* written CE low, and CE is not low.
C11_NoTrafficBeforeReset ==
    (pc \in Constructing \/ (pc = "failed" /\ lastCall.op # "detect_devices"))
    => /\ NoBusTransfer(events)
       /\ NoCeLowWrite(events)
       /\ gpios.ce # 0

C11_Witness ==
    /\ pc = "failed"
    /\ lastCall.op = "reset"
    /\ result = "RuntimeError: Failed to set RESET pin high."
    /\ gpios.ce = 1
    /\ opened_device = NoDevice

\* C12 (SpecFault): close_device with no device open returns without raising,
\* accesses no line and no bus and leaves the whole driver state as it was,
\* whatever the CE line would read back.
C12_CloseIdempotent ==
    [][ (lastCall'.op = "close_device" /\ opened_device = NoDevice)
        => /\ result' = "ok"
           /\ events' = <<>>
           /\ UNCHANGED <<pc, available_devices, opened_device, mode, gpios>> ]_vars

C12_Witness ==
    /\ lastCall.op = "close_device"
    /\ events = <<>>
    /\ result = "ok"
    /\ opened_device = NoDevice
    /\ mode = READ

\* C13 (Spec): mode is None whenever no device is open, and READ or WRITE only
\* while a device is open.
C13_ModeNoneWhenClosed ==
    pc = "ready" =>
        /\ (opened_device = NoDevice) => (mode = None)
        /\ (mode \in {READ, WRITE}) => (opened_device # NoDevice)

\* C14 (Spec): leaving a read() or write() context returns with the session
\* closed and CE high, whatever the body did.
C14_ContextExitCloses ==
    lastCall.op = "context_exit" =>
        /\ result = "ok"
        /\ opened_device = NoDevice
        /\ gpios.ce = 1

C14_Witness ==
    /\ lastCall.op = "context_exit"
    /\ events = <<CeWrite(1), CeRead(1)>>
    /\ opened_device = NoDevice
    /\ gpios.ce = 1

\* C15 (SpecEncoder): for an address a in 0..7 the control byte is
\* 0x40 | (a << 1) | (1 for READ, 0 for WRITE): 0x46 for 3/WRITE, 0x4B for
\* 5/READ, with bits 4, 5 and 7 clear.
C15_ControlByteValue ==
    (lastCall.op = "CONTROLBYTE" /\ lastCall.device_addr \in 0..7)
    => /\ result = "ok"
       /\ events[1].val = 64 + 2 * lastCall.device_addr + Flag(lastCall.mode)
       /\ (lastCall.device_addr = 3 /\ lastCall.mode = WRITE) => events[1].val = 70
       /\ (lastCall.device_addr = 5 /\ lastCall.mode = READ) => events[1].val = 75
       /\ (events[1].val \div 16) % 4 = 0
       /\ (events[1].val \div 128) % 2 = 0

C15_Witness ==
    /\ lastCall.op = "CONTROLBYTE"
    /\ lastCall.device_addr = 5
    /\ lastCall.mode = READ
    /\ events = <<Value(75)>>

\* C16 as stated (SpecEncoder): for an address outside 0..7 the encoder fails
\* and yields no control byte of an address in 0..7.
C16_OutOfRangeFails ==
    (lastCall.op = "CONTROLBYTE" /\ lastCall.device_addr \notin 0..7)
    => /\ result # "ok"
       /\ \A i \in 1..Len(events) : \A b \in 0..7 :
              events[i].val # 64 + 2 * b + Flag(lastCall.mode)

\* C16 amended (SpecEncoder): for an address outside 0..7 the encoder does not
\* fail; it keeps the low three bits, so the byte is that of the address
\* modulo 8.
C16_OutOfRangeMasked ==
    (lastCall.op = "CONTROLBYTE" /\ lastCall.device_addr \notin 0..7)
    => /\ result = "ok"
       /\ events[1].val = 64 + 2 * (lastCall.device_addr % 8) + Flag(lastCall.mode)

C16_Witness ==
    /\ lastCall.op = "CONTROLBYTE"
    /\ lastCall.device_addr = 11
    /\ lastCall.mode = READ
    /\ events = <<Value(71)>>

\* C17 (SpecEncoder): a register of the map resolves under BANK0 and BANK1 to
\* different addresses, IODIRA alone to the same one; GPIOA resolves to 0x12
\* and 0x09; no other register has the same address in the same bank.
C17_RegisterAddresses ==
    (lastCall.op = "register_address" /\ lastCall.register.name \in RegisterNames)
    => /\ result = "ok"
       /\ (events[1].val = ResolveRegister(lastCall.register, 1 - lastCall.bank).reg_addr)
              <=> (lastCall.register.name = "IODIRA")
       /\ (lastCall.register.name = "GPIOA")
              => events[1].val = (IF lastCall.bank = 0 THEN 18 ELSE 9)
       /\ \A k \in RegisterNames \ {lastCall.register.name} :
              ResolveRegister(RegName(k), lastCall.bank).reg_addr # events[1].val

C17_Witness ==
    /\ lastCall.op = "register_address"
    /\ lastCall.register = RegName("GPIOA")
    /\ lastCall.bank = 1
    /\ events = <<Value(9)>>

\* C18 (SpecNumeric): open_device of a detected address with a numeric
\* register in 0x00..0x1A succeeds and sends that number as the second header
\* byte under either bank; with a number outside it raises the range error,
\* transfers nothing, writes no line and keeps opened_device, mode and CE.
C18_NumericRegister ==
    [][ (/\ lastCall'.op = "open_device"
         /\ lastCall'.register.kind = "int"
         /\ lastCall'.device_addr \in Range(available_devices))
        => IF lastCall'.register.val \in 0..26
           THEN /\ result' = "ok"
                /\ events'[Len(events')] =
                       SpiTransfer(<<CONTROLBYTE(lastCall'.device_addr, lastCall'.mode),
                                     lastCall'.register.val>>)
                /\ opened_device' = lastCall'.device_addr
           ELSE /\ result' = RangeError
                /\ events' = <<>>
                /\ UNCHANGED <<opened_device, mode, gpios>> ]_vars

C18_Witness ==
    /\ lastCall.op = "open_device"
    /\ lastCall.register = RegInt(27)
    /\ lastCall.device_addr = 2
    /\ opened_device = 5
    /\ gpios.ce = 0
    /\ result = RangeError

\* C19 (SpecEncoder): a Register called with bit names returns the byte whose
\* set bits are those of the named entries of its bit map, the first entry
\* being the most significant; names outside the map add nothing and raise
\* nothing, and only the set of names matters, not their order or repetition.
\* IOCON's HAEN gives 0x08.
C19_BitValueBuilder ==
    lastCall.op = "Register.__call__" =>
        /\ result = "ok"
        /\ events[1].val = WeightSum(BuilderRegisters[lastCall.register.name].bit_map,
                                     Range(lastCall.data), 1)
        /\ (lastCall.register.name = "IOCONA" /\ Range(lastCall.data) = {"HAEN"})
               => events[1].val = 8

C19_Witness ==
    /\ lastCall.op = "Register.__call__"
    /\ lastCall.register = RegName("IOCONA")
    /\ lastCall.data = <<"NOPE", "HAEN">>
    /\ events = <<Value(8)>>

CeHighError == "RuntimeError: Failed to set CE pin high."
CeLowError == "RuntimeError: Failed to set CE pin low."
\* the ways open_device refuses its arguments
ArgumentErrors ==
    {UnknownDevice, "ValueError: Device address must be between 0 and 7.",
     "KeyError", RangeError, "ValueError: Register must be a string or an integer."}
\* event i of a call is a CE read-back that differs from the level just written
Mismatch(ev, i) ==
    /\ i > 1
    /\ ev[i].kind = "ce_read"
    /\ ev[i - 1].kind = "ce_write"
    /\ ev[i].val # ev[i - 1].val

\* C21 as stated (SpecContract): an open_device call made while a device is
\* open and refused for its address or register has first closed the prior
\* session: CE was driven high and read back, no device is open, CE is high.
C21_AutoCloseFirst ==
    [][ (/\ lastCall'.op = "open_device"
         /\ opened_device # NoDevice
         /\ result' \in ArgumentErrors)
        => /\ events' = <<CeWrite(1), CeRead(1)>>
           /\ opened_device' = NoDevice
           /\ gpios'.ce = 1 ]_vars

\* C21 amended (SpecContract): open_device checks the address and resolves the
\* register before it touches the hardware. Called while a device is open, a
\* refused call accesses no line and no bus and leaves opened_device, mode and
\* CE as they were (session open, CE low); an accepted call starts with the
\* auto-close, CE driven high and read back.
C21_ValidationFirst ==
    [][ (lastCall'.op = "open_device" /\ opened_device # NoDevice)
        => IF result' \in ArgumentErrors
           THEN /\ events' = <<>>
                /\ UNCHANGED <<opened_device, mode, gpios>>
                /\ gpios.ce = 0
           ELSE /\ Len(events') >= 2
                /\ events'[1] = CeWrite(1)
                /\ events'[2] = CeRead(1) ]_vars

C21_Witness ==
    /\ lastCall.op = "open_device"
    /\ lastCall.device_addr = 3
    /\ result = UnknownDevice
    /\ events = <<>>
    /\ opened_device = 2
    /\ gpios.ce = 0

\* C22 (Spec): a successful open_device(address, register, direction, bank)
\* makes exactly one bus transfer, of the two bytes control byte and register
\* address (for a name: the BANK0 address under bank 0, the BANK1 address
\* under bank 1), right after CE was written low and read back low, and ends
\* with opened_device = address and mode = direction.
C22_OpenHeader ==
    (lastCall.op = "open_device" /\ result = "ok")
    => LET n == Len(events)
           reg_addr == IF lastCall.register.kind = "str"
                       THEN IF lastCall.bank = 0
                            THEN REGISTERS[lastCall.register.name].address
                            ELSE REGISTERS[lastCall.register.name].alt_address
                       ELSE lastCall.register.val
           header == SpiTransfer(<<64 + 2 * lastCall.device_addr + Flag(lastCall.mode),
                                   reg_addr>>)
       IN /\ n >= 3
          /\ OfKind(events, "spi_transfer") = <<header>>
          /\ events[n] = header
          /\ events[n - 1] = CeRead(0)
          /\ events[n - 2] = CeWrite(0)
          /\ opened_device = lastCall.device_addr
          /\ mode = lastCall.mode

C22_Witness ==
    /\ lastCall = Call("open_device", 3, RegName("GPIOA"), READ, 1, <<>>)
    /\ result = "ok"
    /\ events = <<CeWrite(0), CeRead(0), SpiTransfer(<<71, 9>>)>>
    /\ opened_device = 3
    /\ mode = READ

\* C23 (SpecFault): in open_device and close_device a CE read-back that
\* differs from the level just written is the last hardware access of the
\* call, which raises the matching error: no second CE write, no transfer.
\* After a failed drive-low no device is open; after a failed drive-high
\* opened_device is what it was.
C23_NoRetry ==
    [][ (lastCall'.op \in {"open_device", "close_device"})
        => \A i \in 1..Len(events') :
               Mismatch(events', i)
               => /\ i = Len(events')
                  /\ result' = (IF events'[i - 1].val = 1 THEN CeHighError ELSE CeLowError)
                  /\ (events'[i - 1].val = 0) => (opened_device' = NoDevice)
                  /\ (events'[i - 1].val = 1) => (opened_device' = opened_device) ]_vars

C23_Witness ==
    /\ lastCall.op = "open_device"
    /\ result = CeLowError
    /\ events = <<CeWrite(1), CeRead(1), CeWrite(0), CeRead(1)>>
    /\ opened_device = NoDevice

\* C24 (Spec): init_spi fails, with no line set up and no hardware access,
\* when the selected bus is not in the platform description, lists no chip
\* select, or lists as its first chip select the pin number configured for CE.
C24_ChipSelectConflictRaises ==
    lastCall.op = "init_spi"
    => LET conflict ==
               IF BusName(spi_bus) \notin DOMAIN SpiProperties THEN TRUE
               ELSE IF Len(SpiProperties[BusName(spi_bus)]) = 0 THEN TRUE
               ELSE SpiProperties[BusName(spi_bus)][1] = GPIO_CE.pin
       IN conflict => /\ pc = "failed"
                      /\ result # "ok"
                      /\ gpios = NoGpios
                      /\ events = <<>>

\* C25 (SpecContexts): with up to two with-blocks running on one driver, a
\* transfer of a context reaches the bus only if the device open at that
\* moment is the context's own, in the context's direction, with CE low.
C25_OnlyOwnerTransfers ==
    [][ (lastCall'.op = "with_transfer" /\ ~NoBusTransfer(events'))
        => /\ opened_device = lastCall'.device_addr
           /\ mode = lastCall'.mode
           /\ gpios.ce = 0 ]_vars

\* C26 (SpecContract): opened_device is -1 or an address in 0..7 that is in
\* available_devices, after any sequence of calls.
C26_OpenedIsAvailable ==
    \/ opened_device = NoDevice
    \/ /\ opened_device \in 0..7
       /\ opened_device \in Range(available_devices)

C26_Witness ==
    /\ opened_device = 5
    /\ available_devices = <<2, 5>>
    /\ lastCall.op = "reset"
    /\ result = "ok"

====
